---- MODULE Spec2Model ----
(***************************************************************************)
(* Model of the homebridge-technotherm platform: the discovery pass of     *)
(* Technotherm (platform.ts) that reconciles the Helki topology with the   *)
(* accessories restored from the host cache, and the Radiator controller   *)
(* (radiator.ts) that mirrors a node's Status and forwards user writes.    *)
(***************************************************************************)
EXTENDS Integers, Sequences, FiniteSets, TLC

VARIABLES
  cfgHome,        \* this.config.home ("" when unset)
  remoteHome,     \* remote side: dev_id -> name of the home listing the device
  remoteDevName,  \* remote side: dev_id -> device.name
  remoteNodes,    \* remote side: dev_id -> list of nodes getNodes returns
  acc,            \* PlatformAccessory objects, by object id
  hostCache,      \* the host's registered platform accessories (object ids)
  accessories,    \* Technotherm.accessories (object ids)
  controllers,    \* the Radiator instances constructed by this process
  pc,             \* position of the process / of discoverDevices
  ri,             \* next cached accessory the host hands to configureAccessory
  groups,         \* const groups = await helki.getGroupedDevices()
  home,           \* const home = groups.find(...)
  work,           \* the (group, device) pairs of the two outer loops, in order
  wi,             \* position in work
  nodes,          \* const nodes = await helki.getNodes(device.dev_id)
  ni,             \* position in nodes
  passNo,         \* number of discovery passes started
  events,         \* side effects of the current pass, in order
  errorLog,       \* log.error / log.warn lines of the current pass or handler
  result,         \* how the promise of discoverDevices settled
  outcome,        \* how the current pass ended
  atStart,        \* the accessory list and the host cache when the pass began
  seen,           \* every (node, device, group, filter) a pass resolved, with its UUID
  faults,         \* failures of external calls so far
  changes,        \* remote changes so far
  quiet,          \* passes completed in a row with topology and config unchanged
  dirty,          \* the remote topology changed while the pass was running
  sent,           \* the helki.setStatus calls the last handler made
  lastOp          \* the handler that ran last

vars == <<cfgHome, remoteHome, remoteDevName, remoteNodes, acc, hostCache,
          accessories, controllers, pc, ri, groups, home, work, wi, nodes, ni,
          passNo, events, errorLog, result, outcome, atStart, seen, faults,
          changes, quiet, dirty, sent, lastOp>>

remoteVars == <<remoteHome, remoteDevName, remoteNodes>>
loopVars == <<groups, home, work, wi, nodes, ni>>

-----------------------------------------------------------------------------
(* Bounds of the model *)

\* discovery passes (process launches) in one behaviour
MaxPasses == 2
\* failures of external calls plus changes of the topology or the configuration
MaxDisturbances == 1

-----------------------------------------------------------------------------
(* The remote directory and the configuration the model ranges over *)

HomeNames == <<"A", "B">>
DevIds == <<"d1", "d2", "d3">>
ConfigHomes == {"", "A", "B", "Z"}

Node(uid, name) == [uid |-> uid, name |-> name]
Device(d, name) == [dev_id |-> d, name |-> name]

\* JavaScript a || b on strings: undefined and "" are both falsy
Or(a, b) == IF a # "" THEN a ELSE b

Min(a, b) == IF a < b THEN a ELSE b

SeqRange(s) == {s[i] : i \in 1..Len(s)}

-----------------------------------------------------------------------------
(* Identity resolver, platform.ts lines 81-83 *)

\* api.hap.uuid.generate: an injective hash of its argument
generate(s) == <<"uuid", s>>

AccessoryName(node, device) == Or(node.name, device.name)

\* bug: the UUID is derived from the name
AccessoryUUIDByName(node, device) == generate(Or(node.name, device.dev_id))

AccessoryUUID(node, device) == generate(Or(node.uid, device.dev_id))

RECURSIVE FindFrom(_, _, _, _)
FindFrom(list, heap, uuid, i) ==
  IF i > Len(list) THEN 0
  ELSE IF heap[list[i]].UUID = uuid THEN list[i]
  ELSE FindFrom(list, heap, uuid, i + 1)

\* this.accessories.find(accessory => accessory.UUID === accessoryUUID); 0 is undefined
FindAccessory(list, heap, uuid) == FindFrom(list, heap, uuid, 1)

-----------------------------------------------------------------------------
(* helki.getGroupedDevices and the home filter, platform.ts lines 61-63 *)

GetGroupedDevices ==
  [g \in 1..Len(HomeNames) |->
     [name |-> HomeNames[g],
      devs |-> LET ds == SelectSeq(DevIds, LAMBDA d : remoteHome[d] = HomeNames[g])
               IN [k \in 1..Len(ds) |-> Device(ds[k], remoteDevName[ds[k]])]]]

\* groups.find(home => home.name === this.config.home)
FindHome(gs, cfg) ==
  IF \E g \in 1..Len(gs) : gs[g].name = cfg
  THEN [defined |-> TRUE, name |-> cfg]
  ELSE [defined |-> FALSE, name |-> ""]

RECURSIVE WorkOf(_, _)
WorkOf(gs, g) ==
  IF g > Len(gs) THEN <<>>
  ELSE [d \in 1..Len(gs[g].devs) |-> [g |-> g, d |-> d]] \o WorkOf(gs, g + 1)

-----------------------------------------------------------------------------
(* Accessory records and controllers *)

\* new this.api.platformAccessory(name, uuid) with the context of lines 109-111
Accessory(name, uuid, device, node, homeName) ==
  [UUID |-> uuid, displayName |-> name,
   context |-> [device |-> device, node |-> node, home |-> homeName]]

\* new Radiator(platform, accessory, helki), radiator.ts lines 11-31: a
\* characteristic the controller has not written yet is the empty sequence
NewRadiator(id, a) ==
  [accessory |-> id,
   node |-> a.context.node,
   serial |-> a.context.device.dev_id,
   name |-> a.displayName,
   onSet |-> {"TargetTemperature", "TargetHeatingCoolingState"},
   subscribed |-> a.context.device.dev_id,
   CurrentTemperature |-> <<>>,
   TargetTemperature |-> <<>>,
   TargetHeatingCoolingState |-> <<>>,
   CurrentHeatingCoolingState |-> <<>>]

Event(op, dev, n, uuid, id, name) ==
  [op |-> op, dev |-> dev, ni |-> n, uuid |-> uuid, acc |-> id, name |-> name]

\* no handler of a controller has run
NoOp == [op |-> "none", ctl |-> 0, mode |-> "", active |-> FALSE,
         mtemp |-> <<>>, stemp |-> <<>>, value |-> 0, ok |-> TRUE,
         settled |-> "none", before |-> <<>>]

\* bug: the catch logs and throws again
CatchDiscoverRethrow(err) ==
  [logged |-> <<"Failed to discover devices", err>>, rethrown |-> TRUE]

\* the catch of discoverDevices, platform.ts lines 127-133
CatchDiscover(err) ==
  [logged |-> <<"Failed to discover devices", err>>, rethrown |-> FALSE]

\* bug: the catch of lines 91-93 logs and throws again
CatchUnregisterRethrow(err) ==
  [logged |-> <<"existing accessory", err>>, rethrown |-> TRUE]

\* the catch around unregisterPlatformAccessories, platform.ts lines 91-93
CatchUnregister(err) ==
  [logged |-> <<"existing accessory", err>>, rethrown |-> FALSE]

-----------------------------------------------------------------------------
(* Initial states: a process that has just been launched *)

D1NodeLists ==
  { <<>>,
    <<Node("", "")>>,
    <<Node("u1", "n1"), Node("u1b", "n2")>>,
    <<Node("", "n1"), Node("", "n2")>> }

D2Node == Node("u2", "n2")
D3Node == Node("", "")

\* what an earlier run of the plugin may have left in the host cache
InitialCaches ==
  {<<>>} \cup
  { <<Accessory("n2", generate("u2"), Device("d2", "D2"), D2Node, h)>> :
      h \in {"A", "B"} }

Init ==
  /\ cfgHome \in ConfigHomes
  /\ remoteHome = [d \in SeqRange(DevIds) |-> IF d = "d3" THEN "B" ELSE "A"]
  /\ remoteDevName = [d \in SeqRange(DevIds) |->
                        IF d = "d1" THEN "D1" ELSE IF d = "d2" THEN "D2" ELSE "D3"]
  /\ \E l \in D1NodeLists :
       remoteNodes = [d \in SeqRange(DevIds) |->
                        IF d = "d1" THEN l ELSE IF d = "d2" THEN <<D2Node>> ELSE <<D3Node>>]
  /\ acc \in InitialCaches
  /\ hostCache = [i \in 1..Len(acc) |-> i]
  /\ accessories = <<>>
  /\ controllers = <<>>
  /\ pc = "restoring"
  /\ ri = 1
  /\ groups = <<>>
  /\ home = [defined |-> FALSE, name |-> ""]
  /\ work = <<>>
  /\ wi = 0
  /\ nodes = <<>>
  /\ ni = 0
  /\ passNo = 0
  /\ events = <<>>
  /\ errorLog = <<>>
  /\ result = "none"
  /\ outcome = "none"
  /\ atStart = [accessories |-> <<>>, hostCache |-> <<>>, acc |-> <<>>]
  /\ seen = {}
  /\ faults = 0
  /\ changes = 0
  /\ quiet = 0
  /\ dirty = FALSE
  /\ sent = <<>>
  /\ lastOp = NoOp

-----------------------------------------------------------------------------
(* Host lifecycle *)

CanDisturb == faults + changes < MaxDisturbances

\* bug: the restored accessory is logged and never pushed
ConfigureAccessoryNoPush ==
  /\ pc = "restoring"
  /\ ri <= Len(hostCache)
  /\ ri' = ri + 1
  /\ lastOp' = NoOp
  /\ UNCHANGED <<seen, cfgHome, remoteVars, acc, hostCache, accessories, controllers,
                 pc, loopVars, passNo, events, errorLog, result, outcome, atStart,
                 faults, changes, quiet, dirty, sent>>

\* configureAccessory, platform.ts lines 41-46
ConfigureAccessory ==
  /\ pc = "restoring"
  /\ ri <= Len(hostCache)
  /\ accessories' = Append(accessories, hostCache[ri])
  /\ ri' = ri + 1
  /\ lastOp' = NoOp
  /\ UNCHANGED <<seen, cfgHome, remoteVars, acc, hostCache, controllers, pc, loopVars,
                 passNo, events, errorLog, result, outcome, atStart, faults,
                 changes, quiet, dirty, sent>>

\* didFinishLaunching calls discoverDevices, lines 30-34; the pass runs up to
\* its first await, the call of getGroupedDevices at line 61
DiscoverDevices ==
  /\ pc = "restoring"
  /\ ri > Len(hostCache)
  /\ pc' = "awaitGroups"
  /\ passNo' = passNo + 1
  /\ events' = <<>>
  /\ errorLog' = <<>>
  /\ result' = "pending"
  /\ outcome' = "running"
  /\ atStart' = [accessories |-> accessories, hostCache |-> hostCache, acc |-> acc]
  /\ dirty' = FALSE
  /\ lastOp' = NoOp
  /\ UNCHANGED <<seen, cfgHome, remoteVars, acc, hostCache, accessories, controllers, ri,
                 loopVars, faults, changes, quiet, sent>>

\* the host process is stopped and launched again: the cache is read back from
\* disk, the configuration may have been edited, every controller is gone
Restart ==
  /\ pc = "done"
  /\ passNo < MaxPasses
  /\ \E c \in ConfigHomes :
       /\ c # cfgHome => CanDisturb
       /\ cfgHome' = c
       /\ changes' = IF c = cfgHome THEN changes ELSE changes + 1
       /\ quiet' = IF c = cfgHome THEN quiet ELSE 0
  /\ acc' = [i \in 1..Len(hostCache) |-> acc[hostCache[i]]]
  /\ hostCache' = [i \in 1..Len(hostCache) |-> i]
  /\ accessories' = <<>>
  /\ controllers' = <<>>
  /\ pc' = "restoring"
  /\ ri' = 1
  /\ groups' = <<>>
  /\ home' = [defined |-> FALSE, name |-> ""]
  /\ work' = <<>>
  /\ wi' = 0
  /\ nodes' = <<>>
  /\ ni' = 0
  /\ lastOp' = NoOp
  /\ UNCHANGED <<seen, remoteVars, passNo, events, errorLog, result, outcome, atStart,
                 faults, dirty, sent>>

-----------------------------------------------------------------------------
(* discoverDevices, platform.ts lines 51-134 *)

CurGroup == groups[work[wi].g]
CurDevice == CurGroup.devs[work[wi].d]
CurNode == nodes[ni]

Settle(c) == IF c.rethrown THEN "rejected" ELSE "resolved"

Remove(list, id) == SelectSeq(list, LAMBDA x : x # id)

\* bug: the comparison of line 87 inverted
HomeMismatchInverted(h, a) == h.defined /\ a.context.home = h.name

\* bug: line 87 without the test of home
HomeMismatchNoFilter(h, a) == a.context.home # h.name

\* line 87: home && existingAccessory?.context.home !== home.name
HomeMismatch(h, a) == h.defined /\ a.context.home # h.name

\* bug: line 112 without the comparison of the group
MatchesHomeAnyGroup(h, group) == h.defined

\* line 112: home !== undefined && home.name === group.name
MatchesHome(h, group) == h.defined /\ h.name = group.name

\* bug: the block of lines 117-121 made unconditional
NoFilterAlways(h) == TRUE

\* line 117: home === undefined
NoFilter(h) == ~h.defined

\* bug: the rename of lines 96-100 never taken
RenamedNever(a, name) == FALSE

\* line 96: existingAccessory.displayName !== accessoryName
Renamed(a, name) == a.displayName # name

\* the loops of lines 65, 69 and 78 move on: to the next node, to the getNodes
\* call of the next device, or out of the try block
Continue(afterNode, disturbed) ==
  LET lastNode == ~afterNode \/ ni >= Len(nodes)
      lastDev == wi >= Len(work)
  IN /\ pc' = IF ~lastNode THEN "node" ELSE IF lastDev THEN "done" ELSE "awaitNodes"
     /\ ni' = IF ~lastNode THEN ni + 1 ELSE 0
     /\ nodes' = IF ~lastNode THEN nodes ELSE <<>>
     /\ wi' = IF lastNode THEN wi + 1 ELSE wi
     /\ outcome' = IF lastNode /\ lastDev THEN "completed" ELSE outcome
     /\ result' = IF lastNode /\ lastDev THEN "resolved" ELSE result
     /\ dirty' = disturbed
     /\ quiet' = IF lastNode /\ lastDev
                 THEN (IF disturbed THEN 0 ELSE Min(quiet + 1, MaxPasses))
                 ELSE quiet

\* an exception reaches the catch of line 127
Abort(err, how) ==
  /\ pc' = "done"
  /\ errorLog' = Append(errorLog, CatchDiscover(err).logged)
  /\ result' = Settle(CatchDiscover(err))
  /\ outcome' = how
  /\ faults' = faults + 1
  /\ dirty' = TRUE
  /\ quiet' = 0
  /\ UNCHANGED <<wi, nodes, ni>>

\* bug: return where line 74 says continue
SkipDeviceReturn(device) ==
  [logged |-> <<"No nodes found for device", device.name>>, next |-> "return"]

\* lines 72-75: a device without nodes is warned about and skipped
SkipDevice(device) ==
  [logged |-> <<"No nodes found for device", device.name>>, next |-> "continue"]

\* line 61 returns the topology, line 63 resolves the home filter, and the
\* pass runs on to the getNodes call of the first device
GroupsFetched ==
  /\ pc = "awaitGroups"
  /\ groups' = GetGroupedDevices
  /\ home' = FindHome(groups', cfgHome)
  /\ work' = WorkOf(groups', 1)
  /\ wi' = 1
  /\ pc' = IF work' = <<>> THEN "done" ELSE "awaitNodes"
  /\ outcome' = IF work' = <<>> THEN "completed" ELSE outcome
  /\ result' = IF work' = <<>> THEN "resolved" ELSE result
  /\ quiet' = IF work' = <<>> THEN (IF dirty THEN 0 ELSE Min(quiet + 1, MaxPasses))
              ELSE quiet
  /\ lastOp' = NoOp
  /\ UNCHANGED <<seen, cfgHome, remoteVars, acc, hostCache, accessories, controllers, ri,
                 nodes, ni, passNo, events, errorLog, atStart, faults,
                 changes, dirty, sent>>

\* line 61 throws
GroupsFailed ==
  /\ pc = "awaitGroups"
  /\ CanDisturb
  /\ Abort("getGroupedDevices", "fetchFailed")
  /\ lastOp' = NoOp
  /\ UNCHANGED <<seen, cfgHome, remoteVars, acc, hostCache, accessories, controllers, ri,
                 groups, home, work, passNo, events, atStart, changes, sent>>

\* line 70 returns: an empty list is skipped with a warning (lines 72-75)
NodesFetched ==
  /\ pc = "awaitNodes"
  /\ LET ns == remoteNodes[CurDevice.dev_id]
     IN /\ events' = Append(events, Event("getNodes", CurDevice.dev_id, 0,
                                          generate(""), 0, ""))
                     \o (IF ns = <<>>
                         THEN <<Event("skip", CurDevice.dev_id, 0, generate(""), 0,
                                      CurDevice.name)>>
                         ELSE <<>>)
        /\ IF ns = <<>>
           THEN /\ errorLog' = Append(errorLog, SkipDevice(CurDevice).logged)
                /\ IF SkipDevice(CurDevice).next = "continue"
                   THEN Continue(FALSE, dirty)
                   ELSE /\ pc' = "done"
                        /\ outcome' = "completed"
                        /\ result' = "resolved"
                        /\ quiet' = IF dirty THEN 0 ELSE Min(quiet + 1, MaxPasses)
                        /\ UNCHANGED <<wi, nodes, ni, dirty>>
           ELSE /\ errorLog' = errorLog
                /\ pc' = "node"
                /\ nodes' = ns
                /\ ni' = 1
                /\ UNCHANGED <<wi, outcome, result, dirty, quiet>>
  /\ lastOp' = NoOp
  /\ UNCHANGED <<seen, cfgHome, remoteVars, acc, hostCache, accessories, controllers, ri,
                 groups, home, work, passNo, atStart, faults, changes, sent>>

\* line 70 throws
NodesFailed ==
  /\ pc = "awaitNodes"
  /\ CanDisturb
  /\ Abort("getNodes", "aborted")
  /\ lastOp' = NoOp
  /\ UNCHANGED <<seen, cfgHome, remoteVars, acc, hostCache, accessories, controllers, ri,
                 groups, home, work, passNo, events, atStart, changes, sent>>

\* what lines 81-83 read and the UUID they resolve it to
Resolved(node, device, group) ==
  [pass |-> passNo, dev_id |-> device.dev_id, ni |-> ni, uid |-> node.uid,
   nodeName |-> node.name, devName |-> device.name, group |-> group.name,
   cfg |-> cfgHome, uuid |-> AccessoryUUID(node, device)]

\* lines 85-93: the existing accessory is not in the configured home
RemoveMismatched ==
  /\ pc = "node"
  /\ LET name == AccessoryName(CurNode, CurDevice)
         uuid == AccessoryUUID(CurNode, CurDevice)
         e == FindAccessory(accessories, acc, uuid)
     IN /\ e # 0
        /\ seen' = seen \cup {Resolved(CurNode, CurDevice, CurGroup)}
        /\ HomeMismatch(home, acc[e])
        /\ \E ok \in BOOLEAN :
             /\ ~ok => CanDisturb
             /\ IF ok
                THEN /\ hostCache' = Remove(hostCache, e)
                     /\ events' = Append(events, Event("unregister", CurDevice.dev_id,
                                                       ni, uuid, e, acc[e].displayName))
                     /\ errorLog' = Append(errorLog, <<"Removing accessory", name>>)
                     /\ faults' = faults
                     /\ Continue(TRUE, dirty)
                ELSE /\ hostCache' = hostCache
                     /\ events' = Append(events, Event("unregisterFailed",
                                           CurDevice.dev_id, ni, uuid, e,
                                           acc[e].displayName))
                     /\ IF CatchUnregister("unregister").rethrown
                        THEN Abort("unregister", "aborted")
                        ELSE /\ errorLog' = Append(errorLog,
                                              CatchUnregister("unregister").logged)
                             /\ faults' = faults + 1
                             /\ Continue(TRUE, TRUE)
  /\ lastOp' = NoOp
  /\ UNCHANGED <<cfgHome, remoteVars, acc, accessories, controllers, ri, groups,
                 home, work, passNo, atStart, changes, sent>>

\* lines 94-105: rename if the node was renamed, then bind a controller
RestoreExisting ==
  /\ pc = "node"
  /\ LET name == AccessoryName(CurNode, CurDevice)
         uuid == AccessoryUUID(CurNode, CurDevice)
         e == FindAccessory(accessories, acc, uuid)
         rename == Renamed(acc[e], name)
         renamedAcc == IF rename THEN [acc EXCEPT ![e].displayName = name] ELSE acc
         update == IF rename
                   THEN <<Event("update", CurDevice.dev_id, ni, uuid, e, name)>>
                   ELSE <<>>
     IN /\ e # 0
        /\ seen' = seen \cup {Resolved(CurNode, CurDevice, CurGroup)}
        /\ ~HomeMismatch(home, acc[e])
        /\ acc' = renamedAcc
        /\ \E f \in {"none", "update", "radiator"} :
             /\ f # "none" => CanDisturb
             /\ f = "update" => rename
             /\ CASE f = "none" ->
                       /\ events' = events \o update \o
                            <<Event("radiator", CurDevice.dev_id, ni, uuid, e,
                                    renamedAcc[e].displayName)>>
                       /\ controllers' = Append(controllers, NewRadiator(e, renamedAcc[e]))
                       /\ UNCHANGED <<errorLog, faults>>
                       /\ Continue(TRUE, dirty)
                  [] f = "update" ->
                       /\ events' = events
                       /\ controllers' = controllers
                       /\ Abort("updatePlatformAccessories", "aborted")
                  [] f = "radiator" ->
                       /\ events' = events \o update
                       /\ controllers' = controllers
                       /\ Abort("Radiator", "aborted")
  /\ lastOp' = NoOp
  /\ UNCHANGED <<cfgHome, remoteVars, hostCache, accessories, ri, groups, home,
                 work, passNo, atStart, changes, sent>>

\* the blocks of lines 112-116 and 117-121 that run for a new accessory
Blocks(h, group) ==
  (IF MatchesHome(h, group) THEN 1 ELSE 0) + (IF NoFilter(h) THEN 1 ELSE 0)

\* bug: the accessory is registered before its controller is constructed
NewAccessoryStepsRegisterFirst == <<"register", "radiator">>

\* lines 114-115 and 119-120: the calls made for a new accessory, in order
NewAccessorySteps == <<"radiator", "register">>

\* lines 106-122: a node no cached accessory stands for
AddNew ==
  /\ pc = "node"
  /\ LET name == AccessoryName(CurNode, CurDevice)
         uuid == AccessoryUUID(CurNode, CurDevice)
         e == FindAccessory(accessories, acc, uuid)
         a == Accessory(name, uuid, CurDevice, CurNode, CurGroup.name)
         id == Len(acc) + 1
         n == Blocks(home, CurGroup)
         steps == NewAccessorySteps
         call(op) == Event(op, CurDevice.dev_id, ni, uuid, id, a.displayName)
     IN /\ e = 0
        /\ seen' = seen \cup {Resolved(CurNode, CurDevice, CurGroup)}
        /\ \E f \in {"none", "radiator", "register"} :
             /\ f # "none" => (CanDisturb /\ n > 0)
             /\ CASE f = "none" /\ n = 0 ->
                       /\ events' = Append(events, Event("discard", CurDevice.dev_id,
                                                         ni, uuid, 0, name))
                       /\ UNCHANGED <<acc, controllers, hostCache, errorLog, faults>>
                       /\ Continue(TRUE, dirty)
                  [] f = "none" /\ n > 0 ->
                       /\ acc' = Append(acc, a)
                       /\ controllers' = controllers \o
                                         [k \in 1..n |-> NewRadiator(id, a)]
                       /\ hostCache' = hostCache \o [k \in 1..n |-> id]
                       /\ events' = events \o
                            [k \in 1..(Len(steps) * n) |->
                               call(steps[((k - 1) % Len(steps)) + 1])]
                       /\ UNCHANGED <<errorLog, faults>>
                       /\ Continue(TRUE, dirty)
                  [] f \in {"radiator", "register"} ->
                       \* the calls before the one that throws have been made
                       LET at == CHOOSE i \in 1..Len(steps) : steps[i] = f
                           made == SubSeq(steps, 1, at - 1)
                       IN /\ acc' = Append(acc, a)
                          /\ controllers' = IF "radiator" \in SeqRange(made)
                                            THEN Append(controllers, NewRadiator(id, a))
                                            ELSE controllers
                          /\ hostCache' = IF "register" \in SeqRange(made)
                                          THEN Append(hostCache, id)
                                          ELSE hostCache
                          /\ events' = events \o [k \in 1..Len(made) |-> call(made[k])]
                          /\ Abort(IF f = "radiator" THEN "Radiator"
                                   ELSE "registerPlatformAccessories", "aborted")
  /\ lastOp' = NoOp
  /\ UNCHANGED <<cfgHome, remoteVars, accessories, ri, groups, home, work, passNo,
                 atStart, changes, sent>>

-----------------------------------------------------------------------------
(* The remote side changes between two passes: a pass works on one snapshot *)

Suspended == pc = "done"

Changed ==
  /\ CanDisturb
  /\ Suspended
  /\ changes' = changes + 1
  /\ quiet' = 0
  /\ dirty' = TRUE
  /\ lastOp' = NoOp
  /\ UNCHANGED <<seen, cfgHome, acc, hostCache, accessories, controllers, pc, ri,
                 loopVars, passNo, events, errorLog, result, outcome, atStart,
                 faults, sent>>

NextName(n) == IF n = "" THEN "n1" ELSE IF n = "n1" THEN "n2" ELSE ""

RemoteRenameNode ==
  /\ \E d \in SeqRange(DevIds) : \E i \in 1..Len(remoteNodes[d]) :
       remoteNodes' = [remoteNodes EXCEPT ![d][i].name = NextName(@)]
  /\ Changed
  /\ UNCHANGED <<remoteHome, remoteDevName>>

RemoteRenameDevice ==
  /\ \E d \in SeqRange(DevIds) :
       remoteDevName' = [remoteDevName EXCEPT ![d] = IF @ = "X" THEN "Y" ELSE "X"]
  /\ Changed
  /\ UNCHANGED <<remoteHome, remoteNodes>>

RemoteMoveDevice ==
  /\ \E d \in SeqRange(DevIds) : \E h \in SeqRange(HomeNames) \ {remoteHome[d]} :
       remoteHome' = [remoteHome EXCEPT ![d] = h]
  /\ Changed
  /\ UNCHANGED <<remoteDevName, remoteNodes>>

-----------------------------------------------------------------------------

Next ==
  \/ ConfigureAccessory
  \/ DiscoverDevices
  \/ Restart
  \/ GroupsFetched
  \/ GroupsFailed
  \/ NodesFetched
  \/ NodesFailed
  \/ RemoveMismatched
  \/ RestoreExisting
  \/ AddNew
  \/ RemoteRenameNode
  \/ RemoteRenameDevice
  \/ RemoteMoveDevice

Spec == Init /\ [][Next]_vars

-----------------------------------------------------------------------------
(* Radiator, radiator.ts.  Strings that are parsed or formatted are        *)
(* sequences of characters; numbers are exact, in thousandths.             *)

Digits == <<"0", "1", "2", "3", "4", "5", "6", "7", "8", "9">>
IsDigit(c) == c \in SeqRange(Digits)
DigitValue(c) == (CHOOSE i \in 1..Len(Digits) : Digits[i] = c) - 1

NaN == [nan |-> TRUE, milli |-> 0]
Num(m) == [nan |-> FALSE, milli |-> m]

\* the length of the run of digits of s that starts at position i
RECURSIVE DigitRun(_, _)
DigitRun(s, i) ==
  IF i <= Len(s) /\ IsDigit(s[i]) THEN 1 + DigitRun(s, i + 1) ELSE 0

\* the number the n digits of s from position i spell
RECURSIVE DigitsValue(_, _, _)
DigitsValue(s, i, n) ==
  IF n = 0 THEN 0
  ELSE 10 * DigitsValue(s, i, n - 1) + DigitValue(s[i + n - 1])

\* the fraction digits of s from position i, in thousandths
FractionMilli(s, i, n) ==
  (IF n >= 1 THEN 100 * DigitValue(s[i]) ELSE 0)
  + (IF n >= 2 THEN 10 * DigitValue(s[i + 1]) ELSE 0)
  + (IF n >= 3 THEN DigitValue(s[i + 2]) ELSE 0)

\* bug: parseInt where line 34 and 36 say parseFloat
ParseFloatInteger(s) ==
  LET signed == Len(s) >= 1 /\ s[1] \in {"-", "+"}
      start == IF signed THEN 2 ELSE 1
      n == DigitRun(s, start)
      magnitude == 1000 * DigitsValue(s, start, n)
  IN IF n = 0 THEN NaN
     ELSE Num(IF signed /\ s[1] = "-" THEN 0 - magnitude ELSE magnitude)

\* parseFloat: an optional sign, digits, an optional point and digits; the
\* longest such prefix is the number and what follows is ignored; NaN when
\* there is no digit (exponents and Infinity are not in the alphabet)
ParseFloat(s) ==
  LET signed == Len(s) >= 1 /\ s[1] \in {"-", "+"}
      start == IF signed THEN 2 ELSE 1
      n == DigitRun(s, start)
      dot == start + n <= Len(s) /\ s[start + n] = "."
      f == IF dot THEN DigitRun(s, start + n + 1) ELSE 0
      magnitude == 1000 * DigitsValue(s, start, n) + FractionMilli(s, start + n + 1, f)
  IN IF n = 0 /\ f = 0 THEN NaN
     ELSE Num(IF signed /\ s[1] = "-" THEN 0 - magnitude ELSE magnitude)

\* the decimal digits of a natural number
RECURSIVE NatToString(_)
NatToString(n) ==
  IF n < 10 THEN <<Digits[n + 1]>>
  ELSE NatToString(n \div 10) \o <<Digits[(n % 10) + 1]>>

\* bug: the digit after the point is cut off, not rounded
ToFixed1Truncating(m) ==
  NatToString(m \div 1000) \o <<".">> \o <<Digits[((m \div 100) % 10) + 1]>>

\* Number(value).toFixed(1) of line 75: the nearest tenth, the larger one of
\* two equally near, "-" before the digits of a negative number
ToFixed1(m) ==
  LET a == IF m < 0 THEN 0 - m ELSE m
      tenths == (a + 50) \div 100
      text == NatToString(tenths \div 10) \o <<".">> \o <<Digits[(tenths % 10) + 1]>>
  IN IF m < 0 THEN <<"-">> \o text ELSE text

\* bug: the case labels 'modified_auto' and 'manual' exchanged
TargetStateOfSwapped(mode, old) ==
  CASE mode \in {"auto", "manual"} -> <<"AUTO">>
    [] mode = "modified_auto" -> <<"HEAT">>
    [] mode = "off" -> <<"OFF">>
    [] OTHER -> old

\* the switch of lines 38-58; old is the value the characteristic holds
TargetStateOf(mode, old) ==
  CASE mode \in {"auto", "modified_auto"} -> <<"AUTO">>
    [] mode = "manual" -> <<"HEAT">>
    [] mode = "off" -> <<"OFF">>
    [] OTHER -> old

\* lines 60-61
CurrentStateOf(active) == IF active THEN "HEAT" ELSE "OFF"

\* bug: only AUTO and OFF are told apart, every other value heats
ModeOfHeatByDefault(value) ==
  IF value = "AUTO" THEN "auto" ELSE IF value = "OFF" THEN "off" ELSE "manual"

\* lines 89-95
ModeOf(value) ==
  IF value = "HEAT" THEN "manual" ELSE IF value = "AUTO" THEN "auto" ELSE "off"

\* bug: the catch logs and throws again
CatchWriteRethrow(what, err) == [logged |-> <<what, err>>, rethrown |-> TRUE]

\* the catch of lines 81-83 and 98-100
CatchWrite(what, err) == [logged |-> <<what, err>>, rethrown |-> FALSE]

\* the mtemp and stemp texts the remote side sends, each with the number it
\* denotes
MeasuredTemps ==
  { [text |-> <<"1", "9", ".", "5">>, milli |-> 19500],
    [text |-> <<"-", "3", ".", "2", "5">>, milli |-> 0 - 3250] }

SetTemps ==
  { [text |-> <<"2", "1", ".", "0">>, milli |-> 21000],
    [text |-> <<"7">>, milli |-> 7000] }

StatusModes == {"auto", "modified_auto", "manual", "off", "eco"}

\* the values the host hands to the TargetTemperature handler, each with the
\* text of the value to one decimal place
WriteValues ==
  { [milli |-> 20000, text |-> <<"2", "0", ".", "0">>],
    [milli |-> 20500, text |-> <<"2", "0", ".", "5">>],
    [milli |-> 21250, text |-> <<"2", "1", ".", "3">>],
    [milli |-> 22040, text |-> <<"2", "2", ".", "0">>],
    [milli |-> 9960, text |-> <<"1", "0", ".", "0">>] }

TargetStates == {"OFF", "HEAT", "COOL", "AUTO"}

\* onDeviceUpdate, lines 33-63
OnDeviceUpdate ==
  /\ pc = "done"
  /\ \E c \in 1..Len(controllers) :
       \E mt \in MeasuredTemps, st \in SetTemps, mode \in StatusModes, active \in BOOLEAN :
         /\ controllers' =
              [controllers EXCEPT
                 ![c].CurrentTemperature = <<ParseFloat(mt.text)>>,
                 ![c].TargetTemperature = <<ParseFloat(st.text)>>,
                 ![c].TargetHeatingCoolingState = TargetStateOf(mode, @),
                 ![c].CurrentHeatingCoolingState = <<CurrentStateOf(active)>>]
         /\ lastOp' = [op |-> "onDeviceUpdate", ctl |-> c, mode |-> mode,
                       active |-> active, mtemp |-> mt.text, stemp |-> st.text,
                       value |-> 0, ok |-> TRUE, settled |-> "returned",
                       before |-> controllers[c].TargetHeatingCoolingState]
  /\ sent' = <<>>
  /\ errorLog' = <<>>
  /\ UNCHANGED <<cfgHome, remoteVars, acc, hostCache, accessories, pc, ri, loopVars,
                 passNo, events, result, outcome, atStart, seen, faults, changes,
                 quiet, dirty>>

\* one helki.setStatus call
Command(c, payload, ok) ==
  [dev_id |-> acc[controllers[c].accessory].context.device.dev_id,
   node |-> controllers[c].node, payload |-> payload, ok |-> ok]

\* setTargetTemperature, lines 73-84
SetTargetTemperature ==
  /\ pc = "done"
  /\ \E c \in 1..Len(controllers) : \E w \in WriteValues, ok \in BOOLEAN :
       LET caught == CatchWrite("Failed to set target temperature", "setStatus")
       IN /\ sent' = <<Command(c, [keys |-> {"stemp", "mode", "units"},
                                   stemp |-> ToFixed1(w.milli), mode |-> "manual",
                                   units |-> "C"], ok)>>
          /\ errorLog' = IF ok THEN <<>> ELSE <<caught.logged>>
          /\ lastOp' = [op |-> "setTargetTemperature", ctl |-> c, mode |-> "",
                        active |-> FALSE, mtemp |-> <<>>, stemp |-> <<>>,
                        value |-> w.milli, ok |-> ok,
                        settled |-> IF ok THEN "resolved" ELSE Settle(caught),
                        before |-> controllers[c].TargetHeatingCoolingState]
  /\ UNCHANGED <<cfgHome, remoteVars, acc, hostCache, accessories, controllers, pc,
                 ri, loopVars, passNo, events, result, outcome, atStart, seen,
                 faults, changes, quiet, dirty>>

\* setTargetHeatingCoolingState, lines 86-101
SetTargetHeatingCoolingState ==
  /\ pc = "done"
  /\ \E c \in 1..Len(controllers) : \E v \in TargetStates, ok \in BOOLEAN :
       LET caught == CatchWrite("Failed to set target heating/cooling state", "setStatus")
       IN /\ sent' = <<Command(c, [keys |-> {"mode"}, stemp |-> <<>>,
                                   mode |-> ModeOf(v), units |-> ""], ok)>>
          /\ errorLog' = IF ok THEN <<>> ELSE <<caught.logged>>
          /\ lastOp' = [op |-> "setTargetHeatingCoolingState", ctl |-> c, mode |-> v,
                        active |-> FALSE, mtemp |-> <<>>, stemp |-> <<>>,
                        value |-> 0, ok |-> ok,
                        settled |-> IF ok THEN "resolved" ELSE Settle(caught),
                        before |-> controllers[c].TargetHeatingCoolingState]
  /\ UNCHANGED <<cfgHome, remoteVars, acc, hostCache, accessories, controllers, pc,
                 ri, loopVars, passNo, events, result, outcome, atStart, seen,
                 faults, changes, quiet, dirty>>

\* a process whose discovery pass is over, with a controller it bound
InitRadiator ==
  /\ cfgHome = ""
  /\ remoteHome = [d \in SeqRange(DevIds) |-> IF d = "d3" THEN "B" ELSE "A"]
  /\ remoteDevName = [d \in SeqRange(DevIds) |->
                        IF d = "d1" THEN "D1" ELSE IF d = "d2" THEN "D2" ELSE "D3"]
  /\ remoteNodes = [d \in SeqRange(DevIds) |->
                      IF d = "d1" THEN <<>> ELSE IF d = "d2" THEN <<D2Node>> ELSE <<D3Node>>]
  /\ acc = <<Accessory("n2", generate("u2"), Device("d2", "D2"), D2Node, "A"),
             Accessory("D3", generate("d3"), Device("d3", "D3"), D3Node, "B")>>
  /\ hostCache = <<1, 2>>
  /\ accessories = <<1, 2>>
  /\ \E id \in 1..Len(acc) : controllers = <<NewRadiator(id, acc[id])>>
  /\ pc = "done"
  /\ ri = Len(accessories) + 1
  /\ groups = GetGroupedDevices
  /\ home = FindHome(groups, cfgHome)
  /\ work = WorkOf(groups, 1)
  /\ wi = Len(work) + 1
  /\ nodes = <<>>
  /\ ni = 0
  /\ passNo = 1
  /\ events = <<>>
  /\ errorLog = <<>>
  /\ result = "resolved"
  /\ outcome = "completed"
  /\ atStart = [accessories |-> accessories, hostCache |-> hostCache, acc |-> acc]
  /\ seen = {}
  /\ faults = 0
  /\ changes = 0
  /\ quiet = 1
  /\ dirty = FALSE
  /\ sent = <<>>
  /\ lastOp = NoOp

NextRadiator ==
  \/ OnDeviceUpdate
  \/ SetTargetTemperature
  \/ SetTargetHeatingCoolingState

SpecRadiator == InitRadiator /\ [][NextRadiator]_vars

-----------------------------------------------------------------------------
(* What a pass did, read off its record *)

Completed == pc = "done" /\ outcome = "completed"

\* the nodes the current pass handled, with what lines 81-83 read for each
ThisPass == {s \in seen : s.pass = passNo}

EventsOf(s, ops) ==
  {k \in 1..Len(events) :
     events[k].dev = s.dev_id /\ events[k].ni = s.ni /\ events[k].op \in ops}

NameOf(s) == AccessoryName(Node(s.uid, s.nodeName), Device(s.dev_id, s.devName))

\* the accessory the lookup of line 83 returned for the node (0: none)
Existing(s) == FindAccessory(atStart.accessories, atStart.acc, s.uuid)

Mutations == {"update", "register", "unregister", "unregisterFailed"}

-----------------------------------------------------------------------------
(* C1: a second pass over an unchanged topology and configuration performs *)
(* no rename, no registration and no removal.                              *)

C1_Idempotence ==
  (Completed /\ quiet >= 2) => \A k \in 1..Len(events) : events[k].op \notin Mutations

-----------------------------------------------------------------------------
(* C2: a cached accessory recorded under a home other than the configured *)
(* one, whose node the topology lists under the recorded home, is          *)
(* unregistered by the pass.                                               *)

AllOps == Mutations \cup {"radiator", "discard"}

\* the configured home names a home of the fetched topology
FilterActive == \E g \in 1..Len(groups) : groups[g].name = cfgHome

Unregistered(id) ==
  \E k \in 1..Len(events) :
    events[k].op \in {"unregister", "unregisterFailed"} /\ events[k].acc = id

\* C2 as claimed: for every configured filter and every cached accessory, a
\* pass that completes unregisters the accessory
C2_RemovalAnyFilter ==
  Completed =>
    \A j \in 1..Len(atStart.accessories) :
      LET id == atStart.accessories[j]
          a == atStart.acc[id]
      IN (/\ cfgHome # ""
          /\ a.context.home # cfgHome
          /\ \E s \in ThisPass : s.uuid = a.UUID /\ s.group = a.context.home)
         => Unregistered(id)

\* C2, amended: when the configured home names a home of the fetched topology
\* and the lookup of a node's UUID returns an accessory recorded under another
\* home (the node still listed under the recorded home), a pass that completes
\* calls unregisterPlatformAccessories for that accessory.
C2_Removal ==
  Completed =>
    \A s \in ThisPass :
      LET e == Existing(s)
      IN (/\ e # 0
          /\ FilterActive
          /\ atStart.acc[e].context.home # cfgHome
          /\ s.group = atStart.acc[e].context.home)
         => \E k \in EventsOf(s, {"unregister", "unregisterFailed"}) : events[k].acc = e

C2_Witness ==
  /\ Completed
  /\ \E s \in ThisPass :
       /\ Existing(s) # 0
       /\ FilterActive
       /\ atStart.acc[Existing(s)].context.home # cfgHome
       /\ s.group = atStart.acc[Existing(s)].context.home
       /\ EventsOf(s, {"unregister"}) # {}

-----------------------------------------------------------------------------
(* C3: a node without a cached accessory, in a group other than the        *)
(* configured home, is neither registered nor bound to a controller.       *)

\* C3 as claimed: for every configured filter, such a node is neither
\* registered nor bound
C3_SuppressionAnyFilter ==
  \A s \in ThisPass :
    (Existing(s) = 0 /\ cfgHome # "" /\ s.group # cfgHome)
      => EventsOf(s, {"register", "radiator"}) = {}

\* C3, amended: when the configured home names a home of the fetched topology, a
\* node of another group that no cached accessory stands for is never
\* registered and gets no controller.
C3_Suppression ==
  \A s \in ThisPass :
    (Existing(s) = 0 /\ FilterActive /\ s.group # cfgHome)
      => EventsOf(s, {"register", "radiator"}) = {}

C3_Witness ==
  /\ Completed
  /\ \E s \in ThisPass :
       /\ Existing(s) = 0
       /\ FilterActive
       /\ s.group # cfgHome
       /\ EventsOf(s, {"discard"}) # {}

-----------------------------------------------------------------------------
(* C4: a node renamed between two passes, with a cached accessory for its  *)
(* UUID, has that accessory renamed and no new accessory registered.       *)

\* the record of the same node in the pass before, under another name
RenamedSince(s) ==
  {t \in seen : /\ t.pass = s.pass - 1
                /\ t.dev_id = s.dev_id /\ t.ni = s.ni
                /\ t.uuid = s.uuid
                /\ t.nodeName # s.nodeName}

\* the display name the accessory carried when the pass came to the node
NameBefore(e, s) ==
  LET f == CHOOSE k \in EventsOf(s, AllOps) : \A j \in EventsOf(s, AllOps) : k <= j
      ups == {k \in 1..(f - 1) : events[k].op = "update" /\ events[k].acc = e}
  IN IF ups = {} THEN atStart.acc[e].displayName
     ELSE events[CHOOSE k \in ups : \A j \in ups : j <= k].name

\* C4 as claimed: whatever the home filter, the accessory ends the pass under
\* the node's new name, pushed by an update, and nothing is registered
C4_RenameAlways ==
  Completed =>
    \A s \in ThisPass :
      LET e == Existing(s)
      IN (RenamedSince(s) # {} /\ e # 0)
         => /\ acc[e].displayName = s.nodeName
            /\ \E k \in EventsOf(s, {"update"}) :
                 events[k].acc = e /\ events[k].name = s.nodeName
            /\ EventsOf(s, {"register"}) = {}

\* C4, amended: if a node's name changed since the pass before (UUID
\* unchanged), the lookup finds a cached accessory for it and the home filter
\* does not remove that accessory, the pass binds the node's controller to that
\* accessory under the display name node.name || device.name, calls
\* updatePlatformAccessories exactly when the accessory did not carry that name
\* yet, and registers no new accessory for the node.
C4_Rename ==
  Completed =>
    \A s \in ThisPass :
      LET e == Existing(s)
      IN (/\ RenamedSince(s) # {}
          /\ e # 0
          /\ ~(FilterActive /\ atStart.acc[e].context.home # cfgHome))
         => /\ \E k \in EventsOf(s, {"radiator"}) :
                 events[k].acc = e /\ events[k].name = NameOf(s)
            /\ (NameBefore(e, s) # NameOf(s)) <=>
                 (\E k \in EventsOf(s, {"update"}) :
                    events[k].acc = e /\ events[k].name = NameOf(s))
            /\ EventsOf(s, {"register"}) = {}

C4_Witness ==
  /\ Completed
  /\ \E s \in ThisPass :
       /\ RenamedSince(s) # {}
       /\ Existing(s) # 0
       /\ \E k \in EventsOf(s, {"update"}) : events[k].name = s.nodeName
       /\ acc[Existing(s)].displayName = s.nodeName

-----------------------------------------------------------------------------
(* C5: in a pass that completes, every node the topology returned gets     *)
(* exactly one controller.                                                 *)

Controllers(s) == Cardinality(EventsOf(s, {"radiator"}))

\* the home filter keeps the node from being bound: line 87 for a cached
\* accessory, lines 112 and 117 for a new one
FilteredOut(s) ==
  /\ FilterActive
  /\ IF Existing(s) # 0
     THEN atStart.acc[Existing(s)].context.home # cfgHome
     ELSE s.group # cfgHome

\* C5 as claimed: a pass that completes has bound exactly one controller for
\* every node
C5_OneControllerEach ==
  Completed => \A s \in ThisPass : Controllers(s) = 1

\* C5, amended: no node ever gets two controllers; in a pass that completes a
\* node gets exactly one, bound to the cached accessory the lookup returned or
\* else to a freshly created one, unless the home filter is active and the
\* recorded home of the cached accessory (the group of a new node) differs from
\* the matched home, in which case it gets none.
C5_Controllers ==
  /\ \A s \in ThisPass : Controllers(s) <= 1
  /\ Completed =>
       \A s \in ThisPass :
         /\ Controllers(s) = IF FilteredOut(s) THEN 0 ELSE 1
         /\ \A k \in EventsOf(s, {"radiator"}) :
              /\ events[k].uuid = s.uuid
              /\ IF Existing(s) # 0 THEN events[k].acc = Existing(s)
                 ELSE events[k].acc > Len(atStart.acc)

C5_Witness ==
  /\ Completed
  /\ \E s, t \in ThisPass :
       /\ FilteredOut(s) /\ Controllers(s) = 0
       /\ ~FilteredOut(t) /\ Controllers(t) = 1 /\ Existing(t) # 0
  /\ \E s \in ThisPass : ~FilteredOut(s) /\ Existing(s) = 0 /\ Controllers(s) = 1

-----------------------------------------------------------------------------
(* C6: two distinct nodes of a snapshot never resolve to the same UUID,    *)
(* and a node resolves to the same UUID in every pass.                     *)

SameNode(s, t) == s.dev_id = t.dev_id /\ s.ni = t.ni

\* C6 as claimed: distinct nodes of one pass have distinct UUIDs, and a node
\* with an unchanged uid has the same UUID in every pass
C6_NoCollision ==
  \A s, t \in seen :
    /\ (s.pass = t.pass /\ ~SameNode(s, t)) => s.uuid # t.uuid
    /\ (SameNode(s, t) /\ s.uid = t.uid) => s.uuid = t.uuid

-----------------------------------------------------------------------------
(* C7: the UUID depends on node.uid alone when the node has one and on the *)
(* device's dev_id alone when it has none.                                 *)

C7_UuidDependsOnIdOnly ==
  \A s, t \in seen :
    /\ (s.uid # "" /\ s.uid = t.uid) => s.uuid = t.uuid
    /\ (s.uid = "" /\ t.uid = "" /\ s.dev_id = t.dev_id) => s.uuid = t.uuid

C7_Witness ==
  /\ \E s, t \in seen :
       s.uid # "" /\ s.uid = t.uid /\ s.nodeName # t.nodeName /\ s.uuid = t.uuid
  /\ \E s, t \in seen :
       /\ s.uid = "" /\ t.uid = "" /\ s.dev_id = t.dev_id /\ s.uuid = t.uuid
       /\ s.nodeName # t.nodeName

-----------------------------------------------------------------------------
(* C8: when getGroupedDevices fails the pass ends with nothing mutated,    *)
(* the error logged and not propagated.                                    *)

C8_FetchFailureMutatesNothing ==
  (pc = "done" /\ outcome = "fetchFailed") =>
    /\ events = <<>>
    /\ controllers = <<>>
    /\ accessories = atStart.accessories
    /\ hostCache = atStart.hostCache
    /\ acc = atStart.acc
    /\ errorLog = <<<<"Failed to discover devices", "getGroupedDevices">>>>
    /\ result = "resolved"

C8_Witness ==
  /\ pc = "done"
  /\ outcome = "fetchFailed"
  /\ atStart.accessories # <<>>
  /\ result = "resolved"

-----------------------------------------------------------------------------
(* C9: onDeviceUpdate sets the current and the target temperature to the   *)
(* numbers mtemp and stemp denote, the target state to AUTO for auto and   *)
(* modified_auto, HEAT for manual, OFF for off, leaves it as it was for    *)
(* any other mode, and sets the current state to HEAT when active and to   *)
(* OFF when not, whatever the mode.                                        *)

Denoted(table, text) == (CHOOSE r \in table : r.text = text).milli

\* C9: after onDeviceUpdate the four characteristics are the projection of
\* the Status just received
C9_StatusProjection ==
  lastOp.op = "onDeviceUpdate" =>
    LET c == controllers[lastOp.ctl]
    IN /\ c.CurrentTemperature = <<Num(Denoted(MeasuredTemps, lastOp.mtemp))>>
       /\ c.TargetTemperature = <<Num(Denoted(SetTemps, lastOp.stemp))>>
       /\ lastOp.mode \in {"auto", "modified_auto"} =>
            c.TargetHeatingCoolingState = <<"AUTO">>
       /\ lastOp.mode = "manual" => c.TargetHeatingCoolingState = <<"HEAT">>
       /\ lastOp.mode = "off" => c.TargetHeatingCoolingState = <<"OFF">>
       /\ lastOp.mode \notin {"auto", "modified_auto", "manual", "off"} =>
            c.TargetHeatingCoolingState = lastOp.before
       /\ lastOp.active => c.CurrentHeatingCoolingState = <<"HEAT">>
       /\ ~lastOp.active => c.CurrentHeatingCoolingState = <<"OFF">>
       /\ lastOp.settled = "returned"

C9_Witness ==
  /\ lastOp.op = "onDeviceUpdate"
  /\ lastOp.mode = "eco"
  /\ lastOp.before = <<"AUTO">>
  /\ ~lastOp.active
  /\ controllers[lastOp.ctl].TargetHeatingCoolingState = <<"AUTO">>
  /\ controllers[lastOp.ctl].CurrentHeatingCoolingState = <<"OFF">>
  /\ controllers[lastOp.ctl].CurrentTemperature = <<Num(19500)>>

-----------------------------------------------------------------------------
(* C10: a target-temperature write makes exactly one setStatus call, for   *)
(* the controller's own device and node, with the value to one decimal     *)
(* place as stemp, mode manual and units C, whatever the last Status said. *)

C10_TemperatureWrite ==
  lastOp.op = "setTargetTemperature" =>
    LET c == controllers[lastOp.ctl]
        w == CHOOSE r \in WriteValues : r.milli = lastOp.value
    IN /\ Len(sent) = 1
       /\ sent[1].dev_id = acc[c.accessory].context.device.dev_id
       /\ sent[1].node = acc[c.accessory].context.node
       /\ sent[1].payload = [keys |-> {"stemp", "mode", "units"}, stemp |-> w.text,
                             mode |-> "manual", units |-> "C"]

C10_Witness ==
  /\ lastOp.op = "setTargetTemperature"
  /\ lastOp.value = 21250
  /\ controllers[lastOp.ctl].TargetHeatingCoolingState = <<"AUTO">>
  /\ Len(sent) = 1
  /\ sent[1].payload.stemp = <<"2", "1", ".", "3">>
  /\ sent[1].payload.mode = "manual"

-----------------------------------------------------------------------------
(* C11: a target-mode write makes one setStatus call, for the controller's *)
(* own device and node, whose payload holds mode alone: manual for HEAT,   *)
(* auto for AUTO, off for every other value.                               *)

C11_ModeWrite ==
  lastOp.op = "setTargetHeatingCoolingState" =>
    LET c == controllers[lastOp.ctl]
        mode == CASE lastOp.mode = "HEAT" -> "manual"
                  [] lastOp.mode = "AUTO" -> "auto"
                  [] lastOp.mode \in {"OFF", "COOL"} -> "off"
    IN /\ Len(sent) = 1
       /\ sent[1].dev_id = acc[c.accessory].context.device.dev_id
       /\ sent[1].node = acc[c.accessory].context.node
       /\ sent[1].payload.keys = {"mode"}
       /\ sent[1].payload.mode = mode

C11_Witness ==
  /\ lastOp.op = "setTargetHeatingCoolingState"
  /\ lastOp.mode = "COOL"
  /\ Len(sent) = 1
  /\ sent[1].payload.keys = {"mode"}
  /\ sent[1].payload.mode = "off"
  /\ sent[1].dev_id = "d3"
  /\ sent[1].node = D3Node

-----------------------------------------------------------------------------
(* C12: a write handler whose setStatus call fails logs the failure and    *)
(* completes normally; a write makes exactly one setStatus call, whether   *)
(* the call succeeds or fails.                                             *)

WriteOps == {"setTargetTemperature", "setTargetHeatingCoolingState"}

FailureLine(op) ==
  IF op = "setTargetTemperature"
  THEN <<"Failed to set target temperature", "setStatus">>
  ELSE <<"Failed to set target heating/cooling state", "setStatus">>

C12_WriteFailureLogged ==
  lastOp.op \in WriteOps =>
    /\ Len(sent) = 1
    /\ sent[1].ok = lastOp.ok
    /\ lastOp.settled = "resolved"
    /\ errorLog = IF lastOp.ok THEN <<>> ELSE <<FailureLine(lastOp.op)>>

C12_Witness ==
  /\ lastOp.op = "setTargetTemperature"
  /\ ~lastOp.ok
  /\ Len(sent) = 1
  /\ ~sent[1].ok
  /\ lastOp.settled = "resolved"
  /\ errorLog = <<<<"Failed to set target temperature", "setStatus">>>>

-----------------------------------------------------------------------------
(* C13: unregisterPlatformAccessories is called only for an accessory of   *)
(* the accessory list, with a home filter that names a fetched home and a  *)
(* recorded home other than that home; with the filter unset or naming no  *)
(* fetched home a pass never calls it.                                     *)

\* a pass has started in this process
InPass == pc # "restoring"

UnregisterCalls ==
  {k \in 1..Len(events) : events[k].op \in {"unregister", "unregisterFailed"}}

C13_UnregisterOnlyOnMismatch ==
  InPass =>
    /\ \A k \in UnregisterCalls :
         /\ events[k].acc \in SeqRange(atStart.accessories)
         /\ FilterActive
         /\ atStart.acc[events[k].acc].context.home # cfgHome
    /\ (cfgHome = "" \/ cfgHome \notin SeqRange(HomeNames)) => UnregisterCalls = {}

C13_Witness ==
  /\ Completed
  /\ FilterActive
  /\ \E k \in UnregisterCalls :
       /\ events[k].op = "unregister"
       /\ events[k].acc \in SeqRange(atStart.accessories)
       /\ atStart.acc[events[k].acc].context.home # cfgHome
       /\ events[k].acc \notin SeqRange(hostCache)

-----------------------------------------------------------------------------
(* C14: for a node whose cached accessory is recorded under a home other   *)
(* than the matched one, the pass calls unregisterPlatformAccessories and  *)
(* does nothing else: no rename, no controller, no registration; a call    *)
(* that throws is logged and the pass goes on.                             *)

\* line 87 holds for the accessory the lookup returned for the node
Mismatched(s) ==
  /\ Existing(s) # 0
  /\ FilterActive
  /\ atStart.acc[Existing(s)].context.home # cfgHome

GetNodesCalls == {k \in 1..Len(events) : events[k].op = "getNodes"}

C14_MismatchOnlyUnregisters ==
  InPass =>
    /\ \A s \in ThisPass :
         Mismatched(s) =>
           /\ EventsOf(s, {"update", "radiator", "register", "discard"}) = {}
           /\ Cardinality(EventsOf(s, {"unregister", "unregisterFailed"})) = 1
           /\ \A k \in EventsOf(s, {"unregister", "unregisterFailed"}) :
                events[k].acc = Existing(s)
           /\ acc[Existing(s)] = atStart.acc[Existing(s)]
           /\ \A c \in 1..Len(controllers) : controllers[c].accessory # Existing(s)
           /\ EventsOf(s, {"unregisterFailed"}) # {} =>
                /\ <<"existing accessory", "unregister">> \in SeqRange(errorLog)
                /\ <<"Failed to discover devices", "unregister">> \notin SeqRange(errorLog)
    /\ (pc = "done" /\ outcome # "completed") =>
         /\ errorLog # <<>>
         /\ errorLog[Len(errorLog)][1] = "Failed to discover devices"
         /\ errorLog[Len(errorLog)][2] # "unregister"
    /\ Completed => Cardinality(GetNodesCalls) = Len(work)

C14_Witness ==
  /\ Completed
  /\ result = "resolved"
  /\ \E s \in ThisPass :
       /\ Mismatched(s)
       /\ \E k \in EventsOf(s, {"unregisterFailed"}) :
            \E j \in (k + 1)..Len(events) : events[j].op \in AllOps
       /\ EventsOf(s, {"update", "radiator", "register"}) = {}
  /\ <<"existing accessory", "unregister">> \in SeqRange(errorLog)

-----------------------------------------------------------------------------
(* C15: a device whose getNodes call returns no node has nothing           *)
(* registered, unregistered, renamed or bound in that pass, and the pass   *)
(* goes on with the devices and groups after it.                           *)

Skips == {k \in 1..Len(events) : events[k].op = "skip"}

C15_EmptyDeviceSkipped ==
  InPass =>
    /\ \A k \in Skips :
         /\ \A j \in 1..Len(events) :
              events[j].dev = events[k].dev => events[j].op \in {"getNodes", "skip"}
         /\ \A s \in ThisPass : s.dev_id # events[k].dev
         /\ <<"No nodes found for device", events[k].name>> \in SeqRange(errorLog)
    /\ (Skips # {} /\ Len(events) = 2) =>
         /\ hostCache = atStart.hostCache
         /\ controllers = <<>>
         /\ \A id \in 1..Len(atStart.acc) : acc[id] = atStart.acc[id]
    /\ (pc = "done" /\ outcome # "completed") =>
         /\ errorLog # <<>>
         /\ errorLog[Len(errorLog)][1] = "Failed to discover devices"
    /\ (Completed /\ Skips # {}) => Cardinality(GetNodesCalls) = Len(work)

C15_Witness ==
  /\ Completed
  /\ \E k \in Skips :
       /\ events[k].dev = "d1"
       /\ \E i, j \in (k + 1)..Len(events) :
            /\ events[i].dev = "d2" /\ events[i].op = "radiator"
            /\ events[j].dev = "d3" /\ events[j].op = "radiator"
  /\ \A j \in 1..Len(events) : events[j].dev = "d1" => events[j].op \in {"getNodes", "skip"}

-----------------------------------------------------------------------------
(* C16: a getNodes call, a controller construction or a host call that     *)
(* throws after the topology was fetched ends the pass in the catch of     *)
(* discoverDevices, which logs and does not throw; what the pass did       *)
(* before stays as it was done.                                            *)

LateFailures ==
  {"getNodes", "Radiator", "registerPlatformAccessories", "updatePlatformAccessories"}

RadiatorCalls == SelectSeq(events, LAMBDA ev : ev.op = "radiator")

\* the name the last updatePlatformAccessories call of the pass pushed for id
LastUpdate(id) ==
  LET ups == {k \in 1..Len(events) : events[k].op = "update" /\ events[k].acc = id}
  IN events[CHOOSE k \in ups : \A j \in ups : j <= k].name

C16_LateFailureKeepsEarlierWork ==
  (pc = "done" /\ outcome = "aborted") =>
    /\ result = "resolved"
    /\ errorLog # <<>>
    /\ errorLog[Len(errorLog)][1] = "Failed to discover devices"
    /\ errorLog[Len(errorLog)][2] \in LateFailures
    /\ accessories = atStart.accessories
    /\ \A k \in 1..Len(events) :
         LET ev == events[k]
         IN /\ ev.op = "register" =>
                 /\ ev.acc \in SeqRange(hostCache)
                 /\ acc[ev.acc].UUID = ev.uuid
                 /\ acc[ev.acc].displayName = ev.name
            /\ ev.op = "unregister" => ev.acc \notin SeqRange(hostCache)
            /\ ev.op = "unregisterFailed" => ev.acc \in SeqRange(hostCache)
            /\ ev.op = "update" => acc[ev.acc].displayName = LastUpdate(ev.acc)
            /\ ev.op = "radiator" =>
                 \/ acc[ev.acc].displayName = ev.name
                 \/ \E j \in (k + 1)..Len(events) :
                      /\ events[j].op = "update" /\ events[j].acc = ev.acc
                      /\ events[j].name = acc[ev.acc].displayName
    /\ Len(controllers) = Len(RadiatorCalls)
    /\ \A j \in 1..Len(controllers) :
         /\ controllers[j].accessory = RadiatorCalls[j].acc
         /\ controllers[j] = NewRadiator(RadiatorCalls[j].acc,
                                         [acc[RadiatorCalls[j].acc] EXCEPT
                                            !.displayName = RadiatorCalls[j].name])

-----------------------------------------------------------------------------
(* C17: the four characteristics of a controller are the projection of the *)
(* last Status it received, and the same Status applied again leaves them  *)
(* unchanged.                                                              *)

\* what a controller that has received this Status and no other shows
FreshTargetState(mode) ==
  CASE mode \in {"auto", "modified_auto"} -> <<"AUTO">>
    [] mode = "manual" -> <<"HEAT">>
    [] mode = "off" -> <<"OFF">>
    [] OTHER -> <<>>

\* C17 as claimed: after onDeviceUpdate the four values are those the last
\* Status alone determines, whatever was received before
C17_LastStatusOnly ==
  lastOp.op = "onDeviceUpdate" =>
    LET c == controllers[lastOp.ctl]
    IN /\ c.CurrentTemperature = <<Num(Denoted(MeasuredTemps, lastOp.mtemp))>>
       /\ c.TargetTemperature = <<Num(Denoted(SetTemps, lastOp.stemp))>>
       /\ c.CurrentHeatingCoolingState = <<IF lastOp.active THEN "HEAT" ELSE "OFF">>
       /\ c.TargetHeatingCoolingState = FreshTargetState(lastOp.mode)

SameStatus(a, b) ==
  /\ a.ctl = b.ctl /\ a.mode = b.mode /\ a.active = b.active
  /\ a.mtemp = b.mtemp /\ a.stemp = b.stemp

ProjectedOrKept ==
  LET c == controllers[lastOp.ctl]
  IN /\ c.CurrentTemperature = <<Num(Denoted(MeasuredTemps, lastOp.mtemp))>>
     /\ c.TargetTemperature = <<Num(Denoted(SetTemps, lastOp.stemp))>>
     /\ c.CurrentHeatingCoolingState = <<IF lastOp.active THEN "HEAT" ELSE "OFF">>
     /\ c.TargetHeatingCoolingState =
          IF lastOp.mode \in {"auto", "modified_auto", "manual", "off"}
          THEN FreshTargetState(lastOp.mode)
          ELSE lastOp.before

\* onDeviceUpdate runs with the Status it ran with the time before
SameStatusAgain ==
  /\ lastOp.op = "onDeviceUpdate"
  /\ lastOp'.op = "onDeviceUpdate"
  /\ SameStatus(lastOp, lastOp')

\* C17, amended: after onDeviceUpdate the current temperature, the target
\* temperature and the current mode are the projection of the Status just
\* received; the target mode is its projection when its mode is auto,
\* modified_auto, manual or off, and otherwise the value the characteristic
\* held before; the same Status applied again changes none of the four, and
\* the write handlers change none of them.
C17_Projection ==
  /\ [](lastOp.op = "onDeviceUpdate" => ProjectedOrKept)
  /\ [][SameStatusAgain => controllers' = controllers]_vars
  /\ [][lastOp'.op \in WriteOps => controllers' = controllers]_vars

C17_Witness ==
  /\ lastOp.op = "onDeviceUpdate"
  /\ lastOp.mode = "eco"
  /\ lastOp.before = <<"HEAT">>
  /\ lastOp.active
  /\ lastOp.mtemp = <<"-", "3", ".", "2", "5">>
  /\ controllers[lastOp.ctl].TargetHeatingCoolingState = <<"HEAT">>
  /\ controllers[lastOp.ctl].CurrentHeatingCoolingState = <<"HEAT">>
  /\ controllers[lastOp.ctl].CurrentTemperature = <<Num(0 - 3250)>>
  /\ controllers[lastOp.ctl].TargetTemperature # <<>>

-----------------------------------------------------------------------------
(* C18: the controller of a new accessory is constructed, with its write   *)
(* handlers and its status subscription, before the accessory is           *)
(* registered; no new accessory is registered without a controller, and    *)
(* when the construction fails the accessory is not registered.            *)

\* the accessories this pass created
Created == (Len(atStart.acc) + 1)..Len(acc)

Bound(id) ==
  \E c \in 1..Len(controllers) :
    /\ controllers[c].accessory = id
    /\ controllers[c].onSet = {"TargetTemperature", "TargetHeatingCoolingState"}
    /\ controllers[c].subscribed = acc[id].context.device.dev_id

C18_ControllerBeforeRegister ==
  InPass =>
    /\ \A k \in 1..Len(events) :
         events[k].op = "register" =>
           /\ k > 1
           /\ events[k - 1].op = "radiator"
           /\ events[k - 1].acc = events[k].acc
           /\ events[k].acc \in Created
    /\ \A id \in Created : id \in SeqRange(hostCache) => Bound(id)
    /\ (pc = "done" /\ outcome = "aborted"
          /\ errorLog[Len(errorLog)] = <<"Failed to discover devices", "Radiator">>) =>
         \A id \in Created : ~Bound(id) => id \notin SeqRange(hostCache)

C18_Witness ==
  /\ pc = "done"
  /\ outcome = "aborted"
  /\ errorLog[Len(errorLog)] = <<"Failed to discover devices", "Radiator">>
  /\ \E id \in Created : ~Bound(id) /\ id \notin SeqRange(hostCache)
  /\ \E k \in 2..Len(events) :
       /\ events[k].op = "register"
       /\ events[k - 1].op = "radiator"
       /\ Bound(events[k].acc)
       /\ events[k].acc \in SeqRange(hostCache)

-----------------------------------------------------------------------------
(* C19: a pass leaves the accessory list as configureAccessory built it:   *)
(* a registered accessory is not added, an unregistered one is not         *)
(* removed, and of a listed accessory only displayName may change.         *)

\* the list changes only by configureAccessory appending the accessory the
\* host hands over, or by the process starting again with an empty list
ListStep ==
  accessories' # accessories =>
    \/ pc = "restoring" /\ pc' = "restoring" /\ ri <= Len(hostCache)
         /\ accessories' = Append(accessories, hostCache[ri])
    \/ pc = "done" /\ pc' = "restoring" /\ accessories' = <<>>

ListKept ==
  InPass =>
    /\ accessories = atStart.accessories
    /\ atStart.accessories = atStart.hostCache
    /\ \A j \in 1..Len(accessories) :
         LET id == accessories[j]
         IN [acc[id] EXCEPT !.displayName = atStart.acc[id].displayName]
              = atStart.acc[id]
    /\ \A k \in 1..Len(events) :
         /\ events[k].op = "register" => events[k].acc \notin SeqRange(accessories)
         /\ events[k].op = "unregister" => events[k].acc \in SeqRange(accessories)

C19_ListMembershipKept == []ListKept /\ [][ListStep]_vars

C19_Witness ==
  /\ Completed
  /\ accessories = atStart.accessories
  /\ \E k, j \in 1..Len(events) :
       /\ events[k].op = "register"
       /\ events[k].acc \in SeqRange(hostCache)
       /\ events[k].acc \notin SeqRange(accessories)
       /\ events[j].op = "unregister"
       /\ events[j].acc \notin SeqRange(hostCache)
       /\ events[j].acc \in SeqRange(accessories)

-----------------------------------------------------------------------------
(* C20: in a pass that completes, every node listed under the matched home *)
(* (every node when no filter is active) ends with a controller bound to   *)
(* an accessory carrying the node's UUID, restored from the cache or newly *)
(* registered, and its accessory is neither unregistered nor discarded.    *)

\* the home filter lets the node's group through
Listed(s) == ~FilterActive \/ s.group = cfgHome

C20_ListedNodesBound ==
  Completed =>
    \A s \in ThisPass :
      Listed(s) =>
        /\ \E k \in EventsOf(s, {"radiator"}) :
             /\ events[k].uuid = s.uuid
             /\ acc[events[k].acc].UUID = s.uuid
             /\ \/ events[k].acc = Existing(s)
                \/ \E j \in EventsOf(s, {"register"}) : events[j].acc = events[k].acc
        /\ EventsOf(s, {"unregister", "unregisterFailed", "discard"}) = {}

====
